---- MODULE Spec2Model ----
(***************************************************************************)
(* A model of rust-zyre (src/src/lib.rs): the safe wrapper types Zyre,     *)
(* Event and Message around the native handles zyre_t, zyre_event_t and    *)
(* zmsg_t of the zyre / czmq libraries.                                    *)
(*                                                                         *)
(* The wrapper state is the `sys` pointer of every wrapper value and       *)
(* whether the value is still in scope.  The native state is the heap of   *)
(* handles the libraries manage: for each handle whether it is allocated,  *)
(* how many times it was released, and what it holds.  The native calls    *)
(* are modelled by what zyre and czmq do for them:                         *)
(*   - the *_destroy functions take a pointer to the pointer, release the  *)
(*     object if the pointer is non-null, and null the pointer;            *)
(*   - every other function starts with assert (self): called with a null  *)
(*     handle the process ends (abort, or a null dereference when the      *)
(*     library is built without assertions);                               *)
(*   - zmsg_pushstr puts the new frame at the FRONT of the message         *)
(*     (zmsg_addstr is the call that appends), zmsg_popstr takes the frame *)
(*     at the front;                                                       *)
(*   - zyre_whisper / zyre_shout take ownership of the message and null    *)
(*     the caller's pointer; zyre_event_get_msg hands the event's message  *)
(*     to the caller and detaches it from the event.                       *)
(***************************************************************************)
EXTENDS Integers, Sequences, FiniteSets, TLC

\* The null pointer (0 as *mut _).
NULL == 0

\* The model follows one Zyre value, one Event value and two Message values
\* (enough for an Event's message to be extracted twice), of which the
\* caller makes at most one itself (Message::new, Message::from_frames), and
\* keeps the frames held by all messages together within MaxPushes.
EventSlots == {1}
MsgSlots == {1, 2}
NewSlots == {1}
MaxPushes == 2

VARIABLES
  zyre,     \* the Zyre value: [scope, sys], and the name it was given at creation
  events,   \* the Event values: slot -> [scope, sys]
  msgs,     \* the Message values: slot -> [scope, sys]
  znode,    \* native heap: the zyre_t object
  zevents,  \* native heap: zyre_event_t objects by handle
  zmsgs,    \* native heap: zmsg_t objects by handle
  sendq,    \* the engine's queue of messages handed to whisper / shout
  pc,       \* "idle", "polling" (inside zyre_event_new) or "aborted"
  last      \* the last wrapper call: its name, receiver, result and native calls

vars == <<zyre, events, msgs, znode, zevents, zmsgs, sendq, pc, last>>

-----------------------------------------------------------------------------
(* Text at the boundary.  A Rust &str is a sequence of characters, which   *)
(* may hold the character NUL; native bytes may also hold BAD, a byte that *)
(* is not valid UTF-8.                                                     *)

\* The &str values callers pass: empty, plain, and with an interior NUL.
StrTexts == { <<>>, <<"a">>, <<"a", "NUL", "a">> }

\* The peer and group identifiers and node names callers pass.
IdTexts == { <<"a">>, <<"a", "NUL", "a">> }

\* Frame contents the engine delivers from the network: an invalid frame
\* last, and an invalid frame first.
WirePayloads == { << <<"a">>, <<"BAD">> >>, << <<"BAD">>, <<"a">> >> }

HasNul(s) == \E i \in 1..Len(s) : s[i] = "NUL"

\* Mutant of CString_new: no check for NUL.
CString_new_unchecked(s) == [ok |-> TRUE, ptr |-> Append(s, "NUL")]

\* CString::new(s): fails with NulError when s holds a NUL, else the bytes
\* of s followed by the terminator.
CString_new(s) ==
  IF HasNul(s) THEN [ok |-> FALSE, ptr |-> <<>>]
  ELSE [ok |-> TRUE, ptr |-> Append(s, "NUL")]

\* What native code (strlen) and CStr::from_ptr read at a char pointer: the
\* bytes before the first terminator.
C_str(p) ==
  LET n == CHOOSE i \in 1..Len(p) : p[i] = "NUL" /\ \A j \in 1..(i-1) : p[j] # "NUL"
  IN SubSeq(p, 1, n - 1)

\* CStr::from_ptr(p).to_str(): the bytes up to the terminator, or Utf8Error.
CStr_to_str(p) ==
  LET b == C_str(p)
  IN IF \E i \in 1..Len(b) : b[i] = "BAD" THEN [ok |-> FALSE, str |-> <<>>]
     ELSE [ok |-> TRUE, str |-> b]

-----------------------------------------------------------------------------
(* The native heap.                                                        *)

EventHandles == EventSlots
MsgHandles == 1..(Cardinality(NewSlots) + Cardinality(EventSlots))

\* The handle zyre_new returns.
NodeH == NULL + 1

NoNode == [st |-> "unalloc", rel |-> 0, name |-> <<>>, phase |-> "created", groups |-> {}]
NoEvent == [st |-> "unalloc", rel |-> 0, type |-> "", msg |-> NULL]
NoMsg == [st |-> "unalloc", rel |-> 0, sent |-> 0, frames |-> <<>>]

\* The name zyre_new gives a node created without one.
AutoName == <<"u">>

zyre_new(name) ==
  [st |-> "live", rel |-> 0, name |-> name, phase |-> "created", groups |-> {}]

\* zyre_destroy (&p): releases *p when it is non-null.
zyre_destroy(zn, p) ==
  IF p = NULL THEN zn ELSE [NoNode EXCEPT !.st = "freed", !.rel = zn.rel + 1]

\* zyre_uuid, zyre_name: pointers to the node's own strings.
NodeUuid == <<"u">>

zyre_uuid(zn) == Append(NodeUuid, "NUL")

zyre_name(zn) == Append(zn.name, "NUL")

zyre_start(zn, rc) == IF rc = 0 THEN [zn EXCEPT !.phase = "started"] ELSE zn

zyre_stop(zn) == [zn EXCEPT !.phase = "stopped"]

\* zyre_join, zyre_leave: the engine adds the group to, or removes it from,
\* the node's own groups when the call succeeds.
zyre_join(zn, group, rc) == IF rc = 0 THEN [zn EXCEPT !.groups = @ \cup {group}] ELSE zn

zyre_leave(zn, group, rc) == IF rc = 0 THEN [zn EXCEPT !.groups = @ \ {group}] ELSE zn

\* zmsg_destroy (&p): releases *p when it is non-null.
zmsg_destroy(zm, p) ==
  IF p = NULL THEN zm
  ELSE [zm EXCEPT ![p] = [NoMsg EXCEPT !.st = "freed", !.rel = zm[p].rel + 1, !.sent = zm[p].sent]]

\* zyre_event_destroy (&p): releases *p when it is non-null, and with it the
\* message still attached to the event.
zyre_event_destroy_msgs(ze, zm, p) ==
  IF p = NULL THEN zm ELSE zmsg_destroy(zm, ze[p].msg)

zyre_event_destroy(ze, p) ==
  IF p = NULL THEN ze
  ELSE [ze EXCEPT ![p] = [NoEvent EXCEPT !.st = "freed", !.rel = ze[p].rel + 1]]

\* zyre_event_get_msg: the event's message, handed to the caller and detached.
zyre_event_get_msg(ze, p) == [ret |-> ze[p].msg, ze |-> [ze EXCEPT ![p].msg = NULL]]

\* The handles of fresh allocations: any handle not yet allocated will do;
\* the model gives the k-th Message made by the caller the handle k, the
\* k-th event the handle k, and the message of event k the next handle after
\* those of the caller's Messages.
FreshMsg(k) == k

FreshEvent(k) == k

FreshEventMsg(k) == Cardinality(NewSlots) + k

\* zmsg_new: a fresh empty message.
zmsg_new(zm, h) == [zm EXCEPT ![h] = [NoMsg EXCEPT !.st = "live"]]

\* A frame: its bytes and its age rank n, which tells the order in which
\* the frames of a message were added (a later frame has a larger n).
Frame(bytes, n) == [s |-> bytes, n |-> n]

RECURSIVE MaxRank(_)
MaxRank(frames) ==
  IF frames = <<>> THEN 0
  ELSE LET r == MaxRank(Tail(frames))
       IN IF Head(frames).n > r THEN Head(frames).n ELSE r

\* zmsg_addstr: the frame goes to the end of the message.
zmsg_addstr(m, ptr) ==
  [m EXCEPT !.frames = Append(@, Frame(C_str(ptr), MaxRank(m.frames) + 1))]

\* zmsg_pushstr: the frame goes to the front of the message.
zmsg_pushstr(m, ptr) ==
  [m EXCEPT !.frames = <<Frame(C_str(ptr), MaxRank(m.frames) + 1)>> \o @]

\* zmsg_popstr: takes the frame at the front, returned as a fresh C string.
zmsg_popstr(m) ==
  [ret |-> Append(Head(m.frames).s, "NUL"), m |-> [m EXCEPT !.frames = Tail(@)]]

zmsg_size(m) == Len(m.frames)

RECURSIVE FramesHeld(_, _)
\* The number of frames the messages 1..h hold.
FramesHeld(zm, h) == IF h = 0 THEN 0 ELSE zmsg_size(zm[h]) + FramesHeld(zm, h - 1)

\* The model keeps the frames held by all messages together within
\* MaxPushes: n more frames may be added only while Room(zm, n).
Room(zm, n) == FramesHeld(zm, Cardinality(MsgHandles)) + n <= MaxPushes

\* zyre_whisper / zyre_shout (self, to, &p): the engine takes the message *p
\* (when non-null), queues it for delivery and releases it once sent.
zyre_send_msgs(zm, p) ==
  IF p = NULL THEN zm
  ELSE [zm EXCEPT ![p] = [NoMsg EXCEPT !.st = "freed", !.rel = zm[p].rel + 1, !.sent = zm[p].sent + 1]]

zyre_send_queue(q, kind, to, p) ==
  IF p = NULL THEN q ELSE Append(q, [kind |-> kind, to |-> to])

-----------------------------------------------------------------------------
(* The record of the last wrapper call.                                    *)

\* op: the method; obj: the slot of the receiver (0 for the node); ptr: the
\* receiver's sys when the call began; arg: the texts passed; ret: the
\* result ("Ok", an Error variant, "none" for a call that returns nothing,
\* "pending" while it blocks, "abort" when the process ended inside it);
\* val: the texts returned; calls: the native calls made, in order; rc: what
\* the last native call returned (a status code or a handle).
Call(op, obj, ptr, arg, ret, val, calls, rc) ==
  [op |-> op, obj |-> obj, ptr |-> ptr, arg |-> arg, ret |-> ret, val |-> val,
   calls |-> calls, rc |-> rc]

NoCall == Call("init", 0, NULL, <<>>, "none", <<>>, <<>>, 0)

\* A native function reached with a null self: its assert (self) fails.
Abort(op, obj, arg, calls) ==
  /\ pc' = "aborted"
  /\ last' = Call(op, obj, NULL, arg, "abort", <<>>, calls, 0)

\* The slot a Message made by the caller takes, and the slot a Message
\* returned by Event::message takes.
FreeNewSlot == CHOOSE m \in NewSlots : msgs[m].scope = "none" /\ \A k \in NewSlots : msgs[k].scope = "none" => m <= k

FreeMsgSlot == CHOOSE m \in MsgSlots : msgs[m].scope = "none" /\ \A k \in MsgSlots : msgs[k].scope = "none" => m >= k

FreeEventSlot == CHOOSE e \in EventSlots : events[e].scope = "none" /\ \A k \in EventSlots : events[k].scope = "none" => e <= k

-----------------------------------------------------------------------------
(* Zyre (lib.rs 59-170).                                                   *)

Init ==
  /\ zyre = [scope |-> "none", sys |-> NULL, given |-> <<>>]
  /\ events = [e \in EventSlots |-> [scope |-> "none", sys |-> NULL]]
  /\ msgs = [m \in MsgSlots |-> [scope |-> "none", sys |-> NULL]]
  /\ znode = NoNode
  /\ zevents = [h \in EventHandles |-> NoEvent]
  /\ zmsgs = [h \in MsgHandles |-> NoMsg]
  /\ sendq = <<>>
  /\ pc = "idle"
  /\ last = NoCall

\* Zyre::new(name): name is <<>> for None, <<text>> for Some(text).
ZyreNew(name) ==
  /\ pc = "idle"
  /\ zyre.scope = "none"
  /\ IF name = <<>>
     THEN /\ znode' = zyre_new(AutoName)
          /\ zyre' = [scope |-> "live", sys |-> NodeH, given |-> name]
          /\ last' = Call("new", 0, NULL, name, "Ok", <<>>, <<"zyre_new">>, NodeH)
     ELSE LET c == CString_new(name[1])
          IN IF c.ok
             THEN /\ znode' = zyre_new(C_str(c.ptr))
                  /\ zyre' = [scope |-> "live", sys |-> NodeH, given |-> name]
                  /\ last' = Call("new", 0, NULL, name, "Ok", <<>>, <<"zyre_new">>, NodeH)
             ELSE /\ last' = Call("new", 0, NULL, name, "ToCString", <<>>, <<>>, 0)
                  /\ UNCHANGED <<zyre, znode>>
  /\ UNCHANGED <<events, msgs, zevents, zmsgs, sendq, pc>>

\* Mutant of Zyre_destroy: the native call gets a copy of the pointer, so
\* self.sys keeps its value.
Zyre_destroy_copy(z, zn) == [self |-> z, zn |-> zyre_destroy(zn, z.sys)]

\* Zyre::destroy: zyre_destroy(&mut self.sys).
Zyre_destroy(z, zn) == [self |-> [z EXCEPT !.sys = NULL], zn |-> zyre_destroy(zn, z.sys)]

ZyreDestroy ==
  /\ pc = "idle"
  /\ zyre.scope = "live"
  /\ LET r == Zyre_destroy(zyre, znode)
     IN /\ zyre' = r.self
        /\ znode' = r.zn
  /\ last' = Call("destroy", 0, zyre.sys, <<>>, "none", <<>>, <<"zyre_destroy">>, 0)
  /\ UNCHANGED <<events, msgs, zevents, zmsgs, sendq, pc>>

\* impl Drop for Zyre: destroy, and the value is gone.
Zyre_drop(z, zn) ==
  LET r == Zyre_destroy(z, zn)
  IN [self |-> [r.self EXCEPT !.scope = "dropped"], zn |-> r.zn]

ZyreDrop ==
  /\ pc = "idle"
  /\ zyre.scope = "live"
  /\ LET r == Zyre_drop(zyre, znode)
     IN /\ zyre' = r.self
        /\ znode' = r.zn
  /\ last' = Call("drop", 0, zyre.sys, <<>>, "none", <<>>, <<"zyre_destroy">>, 0)
  /\ UNCHANGED <<events, msgs, zevents, zmsgs, sendq, pc>>

\* Mutant of Zyre_name: the uuid is read in place of the name.
Zyre_name_uuid(zn) == CStr_to_str(zyre_uuid(zn))

\* Zyre::name on a live handle: CStr::from_ptr(zyre_name(sys)).to_str()?.
Zyre_name(zn) == CStr_to_str(zyre_name(zn))

\* Zyre::uuid on a live handle.
Zyre_uuid(zn) == CStr_to_str(zyre_uuid(zn))

\* The result and the text of a call that returns a decoded string.
StrResult(d) == IF d.ok THEN "Ok" ELSE "FromCStr"

StrValue(d) == IF d.ok THEN <<d.str>> ELSE <<>>

ZyreUuid ==
  /\ pc = "idle"
  /\ zyre.scope = "live"
  /\ IF zyre.sys = NULL
     THEN Abort("uuid", 0, <<>>, <<"zyre_uuid">>)
     ELSE /\ last' = Call("uuid", 0, zyre.sys, <<>>, StrResult(Zyre_uuid(znode)),
                          StrValue(Zyre_uuid(znode)), <<"zyre_uuid">>, 0)
          /\ UNCHANGED pc
  /\ UNCHANGED <<zyre, events, msgs, znode, zevents, zmsgs, sendq>>

ZyreName ==
  /\ pc = "idle"
  /\ zyre.scope = "live"
  /\ IF zyre.sys = NULL
     THEN Abort("name", 0, <<>>, <<"zyre_name">>)
     ELSE /\ last' = Call("name", 0, zyre.sys, <<>>, StrResult(Zyre_name(znode)),
                          StrValue(Zyre_name(znode)), <<"zyre_name">>, 0)
          /\ UNCHANGED pc
  /\ UNCHANGED <<zyre, events, msgs, znode, zevents, zmsgs, sendq>>

\* Mutant of StartResult: the status code is ignored.
StartResult_ignore(rc) == "Ok"

StartResult(rc) == IF rc # 0 THEN "StartFailed" ELSE "Ok"

JoinResult(rc) == IF rc # 0 THEN "JoinFailed" ELSE "Ok"

LeaveResult(rc) == IF rc # 0 THEN "LeaveFailed" ELSE "Ok"

\* The status codes a native call may return.
StatusCodes == {0, -1}

ZyreStart ==
  /\ pc = "idle"
  /\ zyre.scope = "live"
  /\ IF zyre.sys = NULL
     THEN /\ Abort("start", 0, <<>>, <<"zyre_start">>)
          /\ UNCHANGED znode
     ELSE /\ \E rc \in StatusCodes :
               /\ znode' = zyre_start(znode, rc)
               /\ last' = Call("start", 0, zyre.sys, <<>>, StartResult(rc), <<>>, <<"zyre_start">>, rc)
          /\ UNCHANGED pc
  /\ UNCHANGED <<zyre, events, msgs, zevents, zmsgs, sendq>>

\* Mutant of ZyreStop: stop also destroys the node.
ZyreStop_destroys ==
  /\ pc = "idle"
  /\ zyre.scope = "live"
  /\ zyre.sys # NULL
  /\ zyre' = Zyre_destroy(zyre, znode).self
  /\ znode' = Zyre_destroy(zyre, znode).zn
  /\ last' = Call("stop", 0, zyre.sys, <<>>, "none", <<>>, <<"zyre_stop", "zyre_destroy">>, 0)
  /\ UNCHANGED <<events, msgs, zevents, zmsgs, sendq, pc>>

ZyreStop ==
  /\ pc = "idle"
  /\ zyre.scope = "live"
  /\ IF zyre.sys = NULL
     THEN /\ Abort("stop", 0, <<>>, <<"zyre_stop">>)
          /\ UNCHANGED znode
     ELSE /\ znode' = zyre_stop(znode)
          /\ last' = Call("stop", 0, zyre.sys, <<>>, "none", <<>>, <<"zyre_stop">>, 0)
          /\ UNCHANGED pc
  /\ UNCHANGED <<zyre, events, msgs, zevents, zmsgs, sendq>>

ZyreJoin(group) ==
  /\ pc = "idle"
  /\ zyre.scope = "live"
  /\ LET c == CString_new(group)
     IN IF ~c.ok
        THEN /\ last' = Call("join", 0, zyre.sys, <<group>>, "ToCString", <<>>, <<>>, 0)
             /\ UNCHANGED <<znode, pc>>
        ELSE IF zyre.sys = NULL
        THEN /\ Abort("join", 0, <<group>>, <<"zyre_join">>)
             /\ UNCHANGED znode
        ELSE /\ \E rc \in StatusCodes :
                  /\ znode' = zyre_join(znode, C_str(c.ptr), rc)
                  /\ last' = Call("join", 0, zyre.sys, <<group>>, JoinResult(rc), <<>>, <<"zyre_join">>, rc)
             /\ UNCHANGED pc
  /\ UNCHANGED <<zyre, events, msgs, zevents, zmsgs, sendq>>

ZyreLeave(group) ==
  /\ pc = "idle"
  /\ zyre.scope = "live"
  /\ LET c == CString_new(group)
     IN IF ~c.ok
        THEN /\ last' = Call("leave", 0, zyre.sys, <<group>>, "ToCString", <<>>, <<>>, 0)
             /\ UNCHANGED <<znode, pc>>
        ELSE IF zyre.sys = NULL
        THEN /\ Abort("leave", 0, <<group>>, <<"zyre_leave">>)
             /\ UNCHANGED znode
        ELSE /\ \E rc \in StatusCodes :
                  /\ znode' = zyre_leave(znode, C_str(c.ptr), rc)
                  /\ last' = Call("leave", 0, zyre.sys, <<group>>, LeaveResult(rc), <<>>, <<"zyre_leave">>, rc)
             /\ UNCHANGED pc
  /\ UNCHANGED <<zyre, events, msgs, zevents, zmsgs, sendq>>

\* Mutant of ReadEventResult: the null check is missing.
ReadEventResult_unchecked(event) == "Ok"

\* read_event's mapping of what zyre_event_new returned.
ReadEventResult(event) == IF event = NULL THEN "ReadInterrupted" ELSE "Ok"

\* Event::new(event).
Event_new(event) == [scope |-> "live", sys |-> event]

\* Mutant of ZyreReadEventCall: the wrapper gives up on its own, without
\* waiting for zyre_event_new to return.
ZyreReadEventCall_timeout ==
  /\ pc = "idle"
  /\ zyre.scope = "live"
  /\ zyre.sys # NULL
  /\ last' = Call("read_event", 0, zyre.sys, <<>>, "ReadInterrupted", <<>>, <<"zyre_event_new">>, NULL)
  /\ UNCHANGED <<zyre, events, msgs, znode, zevents, zmsgs, sendq, pc>>

\* Zyre::read_event, up to the blocking zyre_event_new call.  The model
\* starts a read only while a slot for the resulting Event is free.
ZyreReadEventCall ==
  /\ pc = "idle"
  /\ zyre.scope = "live"
  /\ \E e \in EventSlots : events[e].scope = "none"
  /\ IF zyre.sys = NULL
     THEN Abort("read_event", 0, <<>>, <<"zyre_event_new">>)
     ELSE /\ pc' = "polling"
          /\ last' = Call("read_event", 0, zyre.sys, <<>>, "pending", <<>>, <<"zyre_event_new">>, 0)
  /\ UNCHANGED <<zyre, events, msgs, znode, zevents, zmsgs, sendq>>

\* The rest of Zyre::read_event, once zyre_event_new has returned `event`.
ReadEventReturn(event) ==
  /\ last' = [last EXCEPT !.ret = ReadEventResult(event), !.rc = event,
                          !.obj = IF ReadEventResult(event) = "Ok" THEN FreeEventSlot ELSE 0]
  /\ events' = IF ReadEventResult(event) = "Ok"
               THEN [events EXCEPT ![FreeEventSlot] = Event_new(event)]
               ELSE events
  /\ pc' = "idle"

\* zyre_event_new returns an event without a message (ENTER, EXIT, ...).
EnginePollPeerEvent(type) ==
  /\ pc = "polling"
  /\ LET h == FreshEvent(FreeEventSlot)
     IN /\ zevents' = [zevents EXCEPT ![h] = [NoEvent EXCEPT !.st = "live", !.type = type]]
        /\ ReadEventReturn(h)
  /\ UNCHANGED <<zyre, msgs, znode, zmsgs, sendq>>

RECURSIVE AddAll(_, _)
\* The engine fills a received message frame by frame, in wire order.
AddAll(m, payload) ==
  IF payload = <<>> THEN m
  ELSE AddAll(zmsg_addstr(m, Append(Head(payload), "NUL")), Tail(payload))

\* zyre_event_new returns an event that carries a message (WHISPER, SHOUT).
EnginePollMsgEvent(type, payload) ==
  /\ pc = "polling"
  /\ Room(zmsgs, Len(payload))
  /\ LET h == FreshEvent(FreeEventSlot)
         mh == FreshEventMsg(FreeEventSlot)
     IN /\ zmsgs' = [zmsgs EXCEPT ![mh] = AddAll([NoMsg EXCEPT !.st = "live"], payload)]
        /\ zevents' = [zevents EXCEPT ![h] = [NoEvent EXCEPT !.st = "live", !.type = type, !.msg = mh]]
        /\ ReadEventReturn(h)
  /\ UNCHANGED <<zyre, msgs, znode, sendq>>

\* zyre_event_new returns null: the read was interrupted.
EnginePollInterrupt ==
  /\ pc = "polling"
  /\ ReadEventReturn(NULL)
  /\ UNCHANGED <<zyre, msgs, znode, zevents, zmsgs, sendq>>

\* What CStr::from_ptr on a null pointer may give (undefined behaviour):
\* the process ends, or some bytes are read.  zmsg_popstr returns null for
\* an empty message, the zyre_event_* readers for a field the event lacks.
NullReads == {"abort", "Ok", "FromCStr"}

-----------------------------------------------------------------------------
(* Message: destroy, drop and unwrap (lib.rs 259-269, 304-308).            *)

\* Message::destroy: zmsg_destroy(&mut self.sys).
Message_destroy(m, zm) == [self |-> [m EXCEPT !.sys = NULL], zm |-> zmsg_destroy(zm, m.sys)]

\* Mutant of Message_drop: the value leaves scope without a destroy.
Message_drop_forget(m, zm) == [self |-> [m EXCEPT !.scope = "dropped"], zm |-> zm]

\* impl Drop for Message.
Message_drop(m, zm) ==
  LET r == Message_destroy(m, zm)
  IN [self |-> [r.self EXCEPT !.scope = "dropped"], zm |-> r.zm]

\* Mutant of Message_unwrap: self.sys is not cleared.
Message_unwrap_keep(m) == [self |-> m, ret |-> m.sys]

\* Message::unwrap: returns self.sys and leaves null in its place.
Message_unwrap(m) == [self |-> [m EXCEPT !.sys = NULL], ret |-> m.sys]

\* Zyre::whisper and Zyre::shout.  The arguments are evaluated in order:
\* self.sys, CString::new(to)? (which returns early), msg.unwrap(); then the
\* native call; msg is dropped when the function returns.
Send(kind, native, to, m) ==
  /\ pc = "idle"
  /\ zyre.scope = "live"
  /\ msgs[m].scope = "live"
  /\ LET c == CString_new(to)
         u == Message_unwrap(msgs[m])
     IN IF ~c.ok
        THEN LET d == Message_drop(msgs[m], zmsgs)
             IN /\ msgs' = [msgs EXCEPT ![m] = d.self]
                /\ zmsgs' = d.zm
                /\ last' = Call(kind, m, msgs[m].sys, <<to>>, "ToCString", <<>>, <<"zmsg_destroy">>, 0)
                /\ UNCHANGED <<sendq, pc>>
        ELSE IF zyre.sys = NULL
        THEN /\ msgs' = [msgs EXCEPT ![m] = u.self]
             /\ Abort(kind, m, <<to>>, <<native>>)
             /\ UNCHANGED <<zmsgs, sendq>>
        ELSE LET sent == zyre_send_msgs(zmsgs, u.ret)
                 d == Message_drop(u.self, sent)
             IN /\ sendq' = zyre_send_queue(sendq, kind, C_str(c.ptr), u.ret)
                /\ msgs' = [msgs EXCEPT ![m] = d.self]
                /\ zmsgs' = d.zm
                /\ last' = Call(kind, m, msgs[m].sys, <<to>>, "Ok", <<>>, <<native, "zmsg_destroy">>, 0)
                /\ UNCHANGED pc
  /\ UNCHANGED <<zyre, events, znode, zevents>>

ZyreWhisper(peer, m) == Send("whisper", "zyre_whisper", peer, m)

ZyreShout(group, m) == Send("shout", "zyre_shout", group, m)

-----------------------------------------------------------------------------
(* Event (lib.rs 172-230).                                                 *)

\* Mutant of Event_destroy: the native call gets a copy of the pointer, so
\* self.sys keeps its value.
Event_destroy_copy(e, ze, zm) ==
  [self |-> e,
   ze |-> zyre_event_destroy(ze, e.sys),
   zm |-> zyre_event_destroy_msgs(ze, zm, e.sys)]

\* Event::destroy: zyre_event_destroy(&mut self.sys).
Event_destroy(e, ze, zm) ==
  [self |-> [e EXCEPT !.sys = NULL],
   ze |-> zyre_event_destroy(ze, e.sys),
   zm |-> zyre_event_destroy_msgs(ze, zm, e.sys)]

\* impl Drop for Event.
Event_drop(e, ze, zm) ==
  LET r == Event_destroy(e, ze, zm)
  IN [self |-> [r.self EXCEPT !.scope = "dropped"], ze |-> r.ze, zm |-> r.zm]

EventDestroy(e) ==
  /\ pc = "idle"
  /\ events[e].scope = "live"
  /\ LET r == Event_destroy(events[e], zevents, zmsgs)
     IN /\ events' = [events EXCEPT ![e] = r.self]
        /\ zevents' = r.ze
        /\ zmsgs' = r.zm
  /\ last' = Call("event_destroy", e, events[e].sys, <<>>, "none", <<>>, <<"zyre_event_destroy">>, 0)
  /\ UNCHANGED <<zyre, msgs, znode, sendq, pc>>

EventDrop(e) ==
  /\ pc = "idle"
  /\ events[e].scope = "live"
  /\ LET r == Event_drop(events[e], zevents, zmsgs)
     IN /\ events' = [events EXCEPT ![e] = r.self]
        /\ zevents' = r.ze
        /\ zmsgs' = r.zm
  /\ last' = Call("event_drop", e, events[e].sys, <<>>, "none", <<>>, <<"zyre_event_destroy">>, 0)
  /\ UNCHANGED <<zyre, msgs, znode, sendq, pc>>

\* Message::from_ptr(sys).
Message_from_ptr(sys) == [scope |-> "live", sys |-> sys]

\* Mutant of Event_take_msg: zyre_event_msg, the accessor that leaves the
\* message attached to the event.
Event_peek_msg(ze, p) == [ret |-> ze[p].msg, ze |-> ze]

\* The native call Event::message makes.
Event_take_msg(ze, p) == zyre_event_get_msg(ze, p)

\* Event::message: Message::from_ptr(zyre_event_get_msg(self.sys)).  The
\* model extracts only while a slot for the resulting Message is free.
EventMessage(e) ==
  /\ pc = "idle"
  /\ events[e].scope = "live"
  /\ \E m \in MsgSlots : msgs[m].scope = "none"
  /\ IF events[e].sys = NULL
     THEN /\ Abort("message", e, <<>>, <<"zyre_event_get_msg">>)
          /\ UNCHANGED <<msgs, zevents>>
     ELSE LET r == Event_take_msg(zevents, events[e].sys)
          IN /\ zevents' = r.ze
             /\ msgs' = [msgs EXCEPT ![FreeMsgSlot] = Message_from_ptr(r.ret)]
             /\ last' = Call("message", e, events[e].sys, <<>>, "Ok", <<>>, <<"zyre_event_get_msg">>, r.ret)
             /\ UNCHANGED pc
  /\ UNCHANGED <<zyre, events, znode, zmsgs, sendq>>

\* The field readers of Event and the native call each one makes.
EventFields == {"event_type", "peer_uuid", "peer_name", "peer_addr", "group"}

EventReaderOf(field) ==
  CASE field = "event_type" -> "zyre_event_type"
    [] field = "peer_uuid" -> "zyre_event_peer_uuid"
    [] field = "peer_name" -> "zyre_event_peer_name"
    [] field = "peer_addr" -> "zyre_event_peer_addr"
    [] field = "group" -> "zyre_event_group"

\* zyre_event_type, _peer_uuid, _peer_name, _peer_addr, _group: a pointer
\* to the event's string, null for a field the event's type does not carry
\* (the address comes with ENTER, the group with JOIN, LEAVE and SHOUT).
zyre_event_field(ev, field) ==
  CASE field = "event_type" -> <<ev.type, "NUL">>
    [] field = "peer_uuid" -> <<"p", "NUL">>
    [] field = "peer_name" -> <<"p", "NUL">>
    [] field = "peer_addr" -> IF ev.type = "ENTER" THEN <<"t", "NUL">> ELSE <<>>
    [] field = "group" -> IF ev.type \in {"JOIN", "LEAVE", "SHOUT"} THEN <<"a", "NUL">> ELSE <<>>

\* Event::event_type, peer_uuid, peer_name, peer_addr and group:
\* CStr::from_ptr(zyre_event_<field>(self.sys)).to_str()?.
EventRead(e, field) ==
  /\ pc = "idle"
  /\ events[e].scope = "live"
  /\ IF events[e].sys = NULL
     THEN Abort(field, e, <<>>, <<EventReaderOf(field)>>)
     ELSE LET p == zyre_event_field(zevents[events[e].sys], field)
          IN IF p = <<>>
             THEN \E out \in NullReads :
                    IF out = "abort"
                    THEN Abort(field, e, <<>>, <<EventReaderOf(field)>>)
                    ELSE /\ last' = Call(field, e, events[e].sys, <<>>, out, <<>>, <<EventReaderOf(field)>>, 0)
                         /\ UNCHANGED pc
             ELSE /\ last' = Call(field, e, events[e].sys, <<>>, StrResult(CStr_to_str(p)),
                                  StrValue(CStr_to_str(p)), <<EventReaderOf(field)>>, 0)
                  /\ UNCHANGED pc
  /\ UNCHANGED <<zyre, events, msgs, znode, zevents, zmsgs, sendq>>

-----------------------------------------------------------------------------
(* Message (lib.rs 232-308).                                               *)

\* Message::new: zmsg_new().
MessageNew ==
  /\ pc = "idle"
  /\ \E m \in NewSlots : msgs[m].scope = "none"
  /\ LET h == FreshMsg(FreeNewSlot)
     IN /\ zmsgs' = zmsg_new(zmsgs, h)
        /\ msgs' = [msgs EXCEPT ![FreeNewSlot] = [scope |-> "live", sys |-> h]]
        /\ last' = Call("msg_new", FreeNewSlot, NULL, <<>>, "Ok", <<>>, <<"zmsg_new">>, h)
  /\ UNCHANGED <<zyre, events, znode, zevents, sendq, pc>>

\* Mutant of Message_push: a frame that fails validation is skipped.
Message_push_skip(z, frame) ==
  LET c == CString_new(frame)
  IN IF c.ok THEN [ok |-> TRUE, z |-> zmsg_pushstr(z, c.ptr)]
     ELSE [ok |-> TRUE, z |-> z]

\* Message::push on a live handle: the frame is validated, then pushed.
\* z is the native message; the result says whether a push was made.
Message_push(z, frame) ==
  LET c == CString_new(frame)
  IN IF c.ok THEN [ok |-> TRUE, z |-> zmsg_pushstr(z, c.ptr)]
     ELSE [ok |-> FALSE, z |-> z]

RECURSIVE PushAll(_, _, _)
\* The loop of from_frames: push each frame in order, stop at the first
\* error.  n counts the pushes made.
PushAll(z, frames, n) ==
  IF frames = <<>> THEN [ok |-> TRUE, z |-> z, n |-> n]
  ELSE LET r == Message_push(z, Head(frames))
       IN IF r.ok THEN PushAll(r.z, Tail(frames), n + 1)
          ELSE [ok |-> FALSE, z |-> z, n |-> n]

\* The lists of frames from_frames is called with.
FrameLists == UNION { [1..n -> StrTexts] : n \in 0..MaxPushes }

Repeat(x, n) == [i \in 1..n |-> x]

\* Message::from_frames(frames).  On an error the new Message is dropped
\* inside the call and never reaches the caller.
MessageFromFrames(frames) ==
  /\ pc = "idle"
  /\ Room(zmsgs, Len(frames))
  /\ \E m \in NewSlots : msgs[m].scope = "none"
  /\ LET h == FreshMsg(FreeNewSlot)
         r == PushAll(zmsg_new(zmsgs, h)[h], frames, 0)
         pushed == [zmsgs EXCEPT ![h] = r.z]
         msg == [scope |-> "live", sys |-> h]
     IN IF r.ok
        THEN /\ zmsgs' = pushed
             /\ msgs' = [msgs EXCEPT ![FreeNewSlot] = msg]
             /\ last' = Call("from_frames", FreeNewSlot, NULL, frames, "Ok", <<>>,
                             <<"zmsg_new">> \o Repeat("zmsg_pushstr", r.n), h)
        ELSE LET d == Message_drop(msg, pushed)
             IN /\ zmsgs' = d.zm
                /\ msgs' = [msgs EXCEPT ![FreeNewSlot] = d.self]
                /\ last' = Call("from_frames", FreeNewSlot, NULL, frames, "ToCString", <<>>,
                                <<"zmsg_new">> \o Repeat("zmsg_pushstr", r.n) \o <<"zmsg_destroy">>, h)
  /\ UNCHANGED <<zyre, events, znode, zevents, sendq, pc>>

MessageDestroy(m) ==
  /\ pc = "idle"
  /\ msgs[m].scope = "live"
  /\ LET r == Message_destroy(msgs[m], zmsgs)
     IN /\ msgs' = [msgs EXCEPT ![m] = r.self]
        /\ zmsgs' = r.zm
  /\ last' = Call("msg_destroy", m, msgs[m].sys, <<>>, "none", <<>>, <<"zmsg_destroy">>, 0)
  /\ UNCHANGED <<zyre, events, znode, zevents, sendq, pc>>

MessageDrop(m) ==
  /\ pc = "idle"
  /\ msgs[m].scope = "live"
  /\ LET r == Message_drop(msgs[m], zmsgs)
     IN /\ msgs' = [msgs EXCEPT ![m] = r.self]
        /\ zmsgs' = r.zm
  /\ last' = Call("msg_drop", m, msgs[m].sys, <<>>, "none", <<>>, <<"zmsg_destroy">>, 0)
  /\ UNCHANGED <<zyre, events, znode, zevents, sendq, pc>>

\* Message::size: zmsg_size(self.sys).  rc is the size returned.
MessageSize(m) ==
  /\ pc = "idle"
  /\ msgs[m].scope = "live"
  /\ IF msgs[m].sys = NULL
     THEN Abort("size", m, <<>>, <<"zmsg_size">>)
     ELSE /\ last' = Call("size", m, msgs[m].sys, <<>>, "Ok", <<>>, <<"zmsg_size">>,
                          zmsg_size(zmsgs[msgs[m].sys]))
          /\ UNCHANGED pc
  /\ UNCHANGED <<zyre, events, msgs, znode, zevents, zmsgs, sendq>>

\* Message::push(frame).  CString::new(frame)? is evaluated before the
\* native call.
MessagePush(m, frame) ==
  /\ pc = "idle"
  /\ msgs[m].scope = "live"
  /\ Room(zmsgs, 1)
  /\ IF ~CString_new(frame).ok
     THEN /\ last' = Call("push", m, msgs[m].sys, <<frame>>, "ToCString", <<>>, <<>>, 0)
          /\ UNCHANGED <<zmsgs, pc>>
     ELSE IF msgs[m].sys = NULL
     THEN /\ Abort("push", m, <<frame>>, <<"zmsg_pushstr">>)
          /\ UNCHANGED zmsgs
     ELSE /\ zmsgs' = [zmsgs EXCEPT ![msgs[m].sys] = Message_push(@, frame).z]
          /\ last' = Call("push", m, msgs[m].sys, <<frame>>, "Ok", <<>>, <<"zmsg_pushstr">>, 0)
          /\ UNCHANGED pc
  /\ UNCHANGED <<zyre, events, msgs, znode, zevents, sendq>>

\* Mutant of Message_pop: the front frame is read and left in the message.
Message_pop_keep(z) ==
  LET d == CStr_to_str(zmsg_popstr(z).ret)
  IN [ok |-> d.ok, str |-> d.str, z |-> z]

\* One pop with its decoding: CStr::from_ptr(zmsg_popstr(sys)).to_str()?.
Message_pop(z) ==
  LET r == zmsg_popstr(z)
      d == CStr_to_str(r.ret)
  IN [ok |-> d.ok, str |-> d.str, z |-> r.m]

\* Message::pop.
MessagePop(m) ==
  /\ pc = "idle"
  /\ msgs[m].scope = "live"
  /\ IF msgs[m].sys = NULL
     THEN /\ Abort("pop", m, <<>>, <<"zmsg_popstr">>)
          /\ UNCHANGED zmsgs
     ELSE IF zmsg_size(zmsgs[msgs[m].sys]) = 0
     THEN /\ \E out \in NullReads :
               IF out = "abort"
               THEN Abort("pop", m, <<>>, <<"zmsg_popstr">>)
               ELSE /\ last' = Call("pop", m, msgs[m].sys, <<>>, out, <<>>, <<"zmsg_popstr">>, 0)
                    /\ UNCHANGED pc
          /\ UNCHANGED zmsgs
     ELSE LET r == Message_pop(zmsgs[msgs[m].sys])
          IN /\ zmsgs' = [zmsgs EXCEPT ![msgs[m].sys] = r.z]
             /\ last' = Call("pop", m, msgs[m].sys, <<>>, IF r.ok THEN "Ok" ELSE "FromCStr",
                             IF r.ok THEN <<r.str>> ELSE <<>>, <<"zmsg_popstr">>, 0)
             /\ UNCHANGED pc
  /\ UNCHANGED <<zyre, events, msgs, znode, zevents, sendq>>

RECURSIVE CollectLoop(_, _, _, _)
\* The loop of collect: k more pops, each decoded; the first decoding error
\* ends it.  n counts the pops made.
CollectLoop(z, k, acc, n) ==
  IF k = 0 THEN [ok |-> TRUE, frames |-> acc, z |-> z, n |-> n]
  ELSE LET r == Message_pop(z)
       IN IF r.ok THEN CollectLoop(r.z, k - 1, Append(acc, r.str), n + 1)
          ELSE [ok |-> FALSE, frames |-> <<>>, z |-> r.z, n |-> n + 1]

\* Mutant of Message_collect: a decoding error empties the buffer.
Message_collect_drain(z) ==
  LET r == CollectLoop(z, zmsg_size(z), <<>>, 0)
  IN IF r.ok THEN r ELSE [r EXCEPT !.z = [z EXCEPT !.frames = <<>>]]

\* Message::collect on a live handle: size() is read for the capacity and
\* once more for the range of the loop.
Message_collect(z) == CollectLoop(z, zmsg_size(z), <<>>, 0)

MessageCollect(m) ==
  /\ pc = "idle"
  /\ msgs[m].scope = "live"
  /\ IF msgs[m].sys = NULL
     THEN /\ Abort("collect", m, <<>>, <<"zmsg_size">>)
          /\ UNCHANGED zmsgs
     ELSE LET r == Message_collect(zmsgs[msgs[m].sys])
          IN /\ zmsgs' = [zmsgs EXCEPT ![msgs[m].sys] = r.z]
             /\ last' = Call("collect", m, msgs[m].sys, <<>>, IF r.ok THEN "Ok" ELSE "FromCStr",
                             r.frames, <<"zmsg_size", "zmsg_size">> \o Repeat("zmsg_popstr", r.n), 0)
             /\ UNCHANGED pc
  /\ UNCHANGED <<zyre, events, msgs, znode, zevents, sendq>>

-----------------------------------------------------------------------------

\* The names Zyre::new is called with: None and Some(text).
Names == { <<>> } \cup { <<s>> : s \in IdTexts }

PeerEventTypes == {"ENTER"}
MsgEventTypes == {"WHISPER"}

Next ==
  \/ \E name \in Names : ZyreNew(name)
  \/ ZyreDestroy
  \/ ZyreDrop
  \/ ZyreUuid
  \/ ZyreName
  \/ ZyreStart
  \/ ZyreStop
  \/ \E g \in IdTexts : ZyreJoin(g)
  \/ \E g \in IdTexts : ZyreLeave(g)
  \/ ZyreReadEventCall
  \/ \E ty \in PeerEventTypes : EnginePollPeerEvent(ty)
  \/ \E ty \in MsgEventTypes, pl \in WirePayloads : EnginePollMsgEvent(ty, pl)
  \/ EnginePollInterrupt
  \/ \E peer \in IdTexts, m \in MsgSlots : ZyreWhisper(peer, m)
  \/ \E g \in IdTexts, m \in MsgSlots : ZyreShout(g, m)
  \/ \E e \in EventSlots : EventDestroy(e)
  \/ \E e \in EventSlots : EventDrop(e)
  \/ \E e \in EventSlots, f \in EventFields : EventRead(e, f)
  \/ \E e \in EventSlots : EventMessage(e)
  \/ MessageNew
  \/ \E fs \in FrameLists : MessageFromFrames(fs)
  \/ \E m \in MsgSlots : MessageDestroy(m)
  \/ \E m \in MsgSlots : MessageDrop(m)
  \/ \E m \in MsgSlots : MessageSize(m)
  \/ \E m \in MsgSlots, f \in StrTexts : MessagePush(m, f)
  \/ \E m \in MsgSlots : MessagePop(m)
  \/ \E m \in MsgSlots : MessageCollect(m)

Spec == Init /\ [][Next]_vars

\* The engine answers a pending zyre_event_new: with an event or with an
\* interruption.
EnginePoll ==
  \/ \E ty \in PeerEventTypes : EnginePollPeerEvent(ty)
  \/ \E ty \in MsgEventTypes, pl \in WirePayloads : EnginePollMsgEvent(ty, pl)
  \/ EnginePollInterrupt

\* The program with an engine that eventually answers every pending poll.
FairSpec == Spec /\ WF_vars(EnginePoll)

-----------------------------------------------------------------------------
(* Properties.                                                             *)

\* No native object has been released more than once.
NoDoubleRelease ==
  /\ znode.rel <= 1
  /\ \A h \in EventHandles : zevents[h].rel <= 1
  /\ \A h \in MsgHandles : zmsgs[h].rel <= 1

DestroyOps == {"destroy", "drop", "event_destroy", "event_drop", "msg_destroy", "msg_drop"}

\* The sys of the value the last call was made on.
SysOfLast ==
  IF last.op \in {"destroy", "drop"} THEN zyre.sys
  ELSE IF last.op \in {"event_destroy", "event_drop"} THEN events[last.obj].sys
  ELSE msgs[last.obj].sys

\* The release count of the native object the last call was made on, which
\* the value held as last.ptr when the call began.
RelOfLast ==
  IF last.op \in {"destroy", "drop"} THEN znode.rel
  ELSE IF last.op \in {"event_destroy", "event_drop"} THEN zevents[last.ptr].rel
  ELSE zmsgs[last.ptr].rel

\* After a destroy (explicit or at scope exit) the value holds no handle, and
\* the handle it held has been released exactly once.
C1_AfterDestroy ==
  last.op \in DestroyOps =>
    /\ SysOfLast = NULL
    /\ last.ptr # NULL => RelOfLast = 1

\* A destroy of a value that holds no handle releases nothing and changes no
\* state: native heap and every sys stay as they are.
C1_LaterDestroyNoOp ==
  (last'.op \in DestroyOps /\ last'.ptr = NULL) =>
    /\ UNCHANGED <<znode, zevents, zmsgs, sendq, pc>>
    /\ zyre'.sys = zyre.sys
    /\ \A e \in EventSlots : events'[e].sys = events[e].sys
    /\ \A m \in MsgSlots : msgs'[m].sys = msgs[m].sys

\* C1: for Node, Event and Message, any number of destroy calls followed by
\* the destroy at scope exit releases the live handle exactly once, by the
\* first destroy; every later destroy finds the handle absent, releases
\* nothing and changes no state.
C1_DestroyIdempotent ==
  /\ [](NoDoubleRelease /\ C1_AfterDestroy)
  /\ [][C1_LaterDestroyNoOp]_vars

\* C1 witness: a Node, an Event and a Message have all left scope, each with
\* its handle released once, and the last scope exit found the handle absent
\* because an explicit destroy had released it before.
C1_Witness ==
  /\ zyre.scope = "dropped" /\ znode.rel = 1
  /\ events[1].scope = "dropped" /\ zevents[1].rel = 1
  /\ msgs[1].scope = "dropped" /\ zmsgs[1].rel = 1
  /\ last.op \in {"drop", "event_drop", "msg_drop"}
  /\ last.ptr = NULL

\* C2: after whisper or shout with a valid identifier the Message holds no
\* handle; the handle it held was handed to the native send exactly once and
\* released only by it, the drop of the Message releasing nothing.
C2_SendTransfersOwnership ==
  /\ NoDoubleRelease
  /\ \A h \in MsgHandles : zmsgs[h].sent <= 1
  /\ (last.op \in {"whisper", "shout"} /\ last.ret = "Ok") =>
       /\ msgs[last.obj].sys = NULL
       /\ msgs[last.obj].scope = "dropped"
       /\ last.ptr # NULL => (zmsgs[last.ptr].sent = 1 /\ zmsgs[last.ptr].rel = 1)

\* C2 witness: a whisper of a Message that held a live handle has returned.
C2_Witness ==
  /\ last.op = "whisper"
  /\ last.ret = "Ok"
  /\ last.ptr # NULL
  /\ zmsgs[last.ptr].sent = 1

\* C3: two calls of Event::message on one Event never give two Messages that
\* own the same live handle: the first detaches the message from the Event,
\* the second gives a Message without a handle; and in whatever order the
\* Event and the Messages are destroyed, the message is released once (the
\* last conjunct: the Event is gone, no Message holds the message any more,
\* and the process has not ended inside a native call).
C3_MessageExtractedOnce ==
  /\ NoDoubleRelease
  /\ \A m1, m2 \in MsgSlots :
       (m1 # m2 /\ msgs[m1].sys # NULL) => msgs[m1].sys # msgs[m2].sys
  /\ \A h \in EventHandles, m \in MsgSlots :
       zevents[h].msg # NULL => msgs[m].sys # zevents[h].msg
  /\ \A m \in MsgSlots : msgs[m].sys # NULL => zmsgs[msgs[m].sys].st = "live"
  /\ (last.op = "message" /\ last.ret = "Ok") => zevents[last.ptr].msg = NULL
  /\ \A e \in EventSlots :
       (/\ pc # "aborted"
        /\ events[e].scope = "dropped"
        /\ zmsgs[FreshEventMsg(e)].st # "unalloc"
        /\ \A m \in MsgSlots : msgs[m].sys # FreshEventMsg(e))
       => zmsgs[FreshEventMsg(e)].rel = 1

\* C3 witness: the second extraction from an Event that carried a message
\* has returned a Message without a handle, while the first Message still
\* owns the message.
C3_Witness ==
  /\ last.op = "message"
  /\ last.ret = "Ok"
  /\ last.rc = NULL
  /\ zevents[last.ptr].type = "WHISPER"
  /\ \E m \in MsgSlots : msgs[m].sys = FreshEventMsg(last.obj) /\ msgs[m].scope = "live"

\* C4 as claimed: for every list fs of valid frames, from_frames(fs) followed
\* by collect() on the new Message returns exactly fs, in the same order,
\* and leaves size() = 0.
C4_CollectReturnsFramesInOrder ==
  [][(/\ last.op = "from_frames" /\ last.ret = "Ok"
      /\ last'.op = "collect" /\ last'.obj = last.obj /\ last'.ptr = last.rc)
     => (/\ last'.ret = "Ok"
         /\ last'.val = last.arg
         /\ zmsg_size(zmsgs'[last.rc]) = 0)]_vars

\* The frame a pop step took out of the message h: the one whose rank is no
\* longer among the frames.
Popped(h) ==
  CHOOSE f \in { zmsgs[h].frames[i] : i \in 1..Len(zmsgs[h].frames) } :
    \A j \in 1..Len(zmsgs'[h].frames) : zmsgs'[h].frames[j].n # f.n

\* C5 as claimed: on a Message that holds two or more frames, pop removes and
\* returns the oldest remaining frame: the one added earliest among those
\* still in the buffer, pushes appending behind the frames already there.
C5_PopReturnsOldest ==
  [][(/\ last'.op = "pop" /\ last'.ptr # NULL
      /\ zmsgs'[last'.ptr] # zmsgs[last'.ptr]
      /\ zmsg_size(zmsgs[last'.ptr]) >= 2)
     => (/\ \A i \in 1..Len(zmsgs[last'.ptr].frames) :
              Popped(last'.ptr).n <= zmsgs[last'.ptr].frames[i].n
         /\ last'.ret = "Ok" => last'.val = <<Popped(last'.ptr).s>>)]_vars

NodeCallOps == {"start", "stop", "join", "leave", "whisper", "shout", "read_event"}

\* C6 as claimed: once the Node is destroyed, a later start, stop, join,
\* leave, whisper, shout or read_event is a no-op: the call returns, no
\* native function is reached and the Node's state is unchanged; and from
\* Created, Started and Stopped a destroy leads to Destroyed.
C6_DestroyedIsTerminal ==
  [][/\ (/\ zyre.scope = "live" /\ zyre.sys = NULL
         /\ last' # last /\ last'.op \in NodeCallOps)
        => (/\ pc' = "idle"
            /\ last'.ret # "abort"
            /\ UNCHANGED <<zyre, znode>>)
     /\ (/\ zyre.sys # NULL /\ last' # last /\ last'.op \in {"destroy", "drop"})
        => (zyre'.sys = NULL /\ znode'.st = "freed")]_vars

\* C7: read_event returns ReadInterrupted exactly when zyre_event_new
\* returned null, and otherwise an Event that owns the handle returned; a
\* successful Event never wraps an absent handle.
C7_ReadEventMapsNull ==
  (last.op = "read_event" /\ last.ret \notin {"pending", "abort"}) =>
    /\ last.ret \in {"Ok", "ReadInterrupted"}
    /\ last.ret = "ReadInterrupted" <=> last.rc = NULL
    /\ last.ret = "ReadInterrupted" => last.obj = 0
    /\ last.ret = "Ok" =>
         /\ last.obj \in EventSlots
         /\ events[last.obj] = [scope |-> "live", sys |-> last.rc]
         /\ zevents[last.rc].st = "live"

\* C7 witness: a read has been interrupted.
C7_Witness ==
  /\ last.op = "read_event"
  /\ last.ret = "ReadInterrupted"
  /\ last.rc = NULL
  /\ \A e \in EventSlots : events[e].scope = "none"

\* C8: no handle is released twice, and while the process runs every live
\* native object is owned by a value still in scope (or, for a message, by a
\* live event), so a value that has left scope has left nothing allocated:
\* also without any explicit destroy and when from_frames fails part-way.
C8_ReleasedOnceAtScopeExit ==
  /\ NoDoubleRelease
  /\ pc # "aborted" =>
       /\ znode.st = "live" => (zyre.scope = "live" /\ zyre.sys = NodeH)
       /\ zyre.scope = "dropped" => (znode.st = "freed" /\ znode.rel = 1)
       /\ \A h \in EventHandles :
            zevents[h].st = "live" =>
              \E e \in EventSlots : events[e].scope = "live" /\ events[e].sys = h
       /\ \A e \in EventSlots :
            events[e].scope = "dropped" =>
              (zevents[FreshEvent(e)].st = "freed" /\ zevents[FreshEvent(e)].rel = 1)
       /\ \A h \in MsgHandles :
            zmsgs[h].st = "live" =>
              \/ \E m \in MsgSlots : msgs[m].scope = "live" /\ msgs[m].sys = h
              \/ \E g \in EventHandles : zevents[g].st = "live" /\ zevents[g].msg = h
       /\ \A h \in MsgHandles : zmsgs[h].st = "freed" => zmsgs[h].rel = 1
       /\ \A m \in MsgSlots : msgs[m].scope = "dropped" => msgs[m].sys = NULL

\* C8 witness: from_frames failed after one push, and the Message it had made
\* is released; the Node and an Event have left scope too.
C8_Witness ==
  /\ last.op = "from_frames"
  /\ last.ret = "ToCString"
  /\ last.calls = <<"zmsg_new", "zmsg_pushstr", "zmsg_destroy">>
  /\ zmsgs[last.rc].st = "freed"
  /\ zyre.scope = "dropped"
  /\ events[1].scope = "dropped"

\* The operations that take a text, and the native call each one makes
\* with it.
TextOps == {"new", "join", "leave", "push", "whisper", "shout"}

NativeOf(op) ==
  CASE op = "new" -> "zyre_new"
    [] op = "start" -> "zyre_start"
    [] op = "join" -> "zyre_join"
    [] op = "leave" -> "zyre_leave"
    [] op = "push" -> "zmsg_pushstr"
    [] op = "whisper" -> "zyre_whisper"
    [] op = "shout" -> "zyre_shout"

Made(calls) == { calls[i] : i \in 1..Len(calls) }

\* The last call was given a text with an interior terminator.
InvalidText(c) == c.arg # <<>> /\ HasNul(c.arg[1])

\* C9: when the text given to new (with a name), join, leave, push, whisper
\* or shout holds an interior terminator, the call returns the text-encoding
\* error and its native call is not made: the node (its groups included) and
\* the send queue are as before, no node is created, and a push leaves every
\* message as it was.
C9_InvalidTextMakesNoNativeCall ==
  [][(last'.op \in TextOps /\ InvalidText(last'))
     => (/\ last'.ret = "ToCString"
         /\ NativeOf(last'.op) \notin Made(last'.calls)
         /\ znode' = znode
         /\ zyre' = zyre
         /\ sendq' = sendq
         /\ last'.op \notin {"whisper", "shout"} => zmsgs' = zmsgs)]_vars

\* C9 witness: a join with an invalid group was refused on a node that is a
\* member of a group.
C9_Witness ==
  /\ last.op = "join"
  /\ InvalidText(last)
  /\ last.ret = "ToCString"
  /\ zyre.sys # NULL
  /\ znode.groups # {}

StatusOps == {"start", "join", "leave"}

FailedOf(op) ==
  CASE op = "start" -> "StartFailed"
    [] op = "join" -> "JoinFailed"
    [] op = "leave" -> "LeaveFailed"

\* C10 as claimed: every start, join and leave that returns has made exactly
\* one native call, returns its Failed variant exactly when the status code
\* is non-zero and success exactly when it is zero, and a failed call leaves
\* the handle present.
C10_OneNativeCallStatusDecides ==
  (last.op \in StatusOps /\ last.ret # "abort") =>
    /\ last.calls = <<NativeOf(last.op)>>
    /\ last.ret = FailedOf(last.op) <=> last.rc # 0
    /\ last.ret = "Ok" <=> last.rc = 0
    /\ last.ret = FailedOf(last.op) => (zyre.sys = last.ptr /\ zyre.sys # NULL)

\* C10, amended: start, and join and leave with a valid group, make exactly
\* one native call and, when it returns, give the Failed variant exactly when
\* its status code is non-zero and success exactly when it is zero; join and
\* leave with an invalid group make no native call and return the
\* text-encoding error.  A failed call leaves the handle present and the
\* native node live.
C10_OneNativeCallWhenTextValid ==
  last.op \in StatusOps =>
    /\ InvalidText(last) => (last.calls = <<>> /\ last.ret = "ToCString")
    /\ ~InvalidText(last) => last.calls = <<NativeOf(last.op)>>
    /\ (~InvalidText(last) /\ last.ret # "abort") =>
         /\ last.ret = FailedOf(last.op) <=> last.rc # 0
         /\ last.ret = "Ok" <=> last.rc = 0
    /\ last.ret = FailedOf(last.op) =>
         (zyre.sys = last.ptr /\ zyre.sys # NULL /\ znode.st = "live" /\ pc = "idle")

\* C10 witness: a start has failed on a node that was never started.
C10_Witness ==
  /\ last.op = "start"
  /\ last.ret = "StartFailed"
  /\ last.rc # 0
  /\ last.calls = <<"zyre_start">>
  /\ znode.phase = "created"

\* C11: on a Node created with a valid name n, name() returns n exactly,
\* whatever start, stop, join, leave, whisper, shout and read_event calls
\* were made before; the name the native node holds never changes while the
\* node is live.
C11_NameIsTheNameGiven ==
  [][/\ (last'.op = "name" /\ last'.ret # "abort" /\ zyre'.given # <<>>)
          => (last'.ret = "Ok" /\ last'.val = zyre'.given)
     /\ (znode.st = "live" /\ znode'.st = "live") => znode'.name = znode.name]_vars

\* C11 witness: name() returned the name given after the node was started,
\* stopped, joined to a group and used to send a message.
C11_Witness ==
  /\ last.op = "name"
  /\ last.ret = "Ok"
  /\ zyre.given = <<<<"a">>>>
  /\ last.val = zyre.given
  /\ znode.phase = "stopped"
  /\ znode.groups # {}
  /\ sendq # <<>>

\* The handles of the Messages the caller makes with Message::new and
\* Message::from_frames.
NewMsgHandles == { FreshMsg(k) : k \in NewSlots }

Count(calls, c) == Cardinality({ i \in 1..Len(calls) : calls[i] = c })

\* The change a step makes to the number of frames of the live message h:
\* plus one for a successful push on h, minus one for a pop on h that finds a
\* frame, minus the pops made for a collect on h, and nothing otherwise.
SizeDelta(h) ==
  IF last'.ptr # h THEN 0
  ELSE CASE last'.op = "push" /\ last'.ret = "Ok" -> 1
         [] last'.op = "pop" /\ last'.ret # "abort" /\ zmsg_size(zmsgs[h]) > 0 -> 0 - 1
         [] last'.op = "collect" -> 0 - Count(last'.calls, "zmsg_popstr")
         [] OTHER -> 0

\* C12: a Message made by Message::new is empty, one made by from_frames
\* holds one frame per push made; every step changes the number of frames of a
\* live Message by the pushes it made minus the frames it removed; size()
\* returns that number; and on a Message holding only the frame x just
\* pushed, pop() returns x and leaves size() = 0.
C12_SizeCountsPushesMinusPops ==
  [][/\ (last'.op = "size" /\ last'.ret = "Ok") => last'.rc = zmsg_size(zmsgs'[last'.ptr])
     /\ \A h \in MsgHandles :
          /\ (h \in NewMsgHandles /\ zmsgs[h].st = "unalloc" /\ zmsgs'[h].st = "live")
               => zmsg_size(zmsgs'[h]) = Count(last'.calls, "zmsg_pushstr")
          /\ (zmsgs[h].st = "live" /\ zmsgs'[h].st = "live")
               => zmsg_size(zmsgs'[h]) = zmsg_size(zmsgs[h]) + SizeDelta(h)
          /\ (/\ last.op = "push" /\ last.ret = "Ok" /\ last.ptr = h
              /\ zmsg_size(zmsgs[h]) = 1
              /\ last'.op = "pop" /\ last'.ptr = h)
               => (/\ last'.ret = "Ok"
                   /\ last'.val = last.arg
                   /\ zmsg_size(zmsgs'[h]) = 0)]_vars

\* C12 witness: a pop returned the frame "a" and left the Message empty.
C12_Witness ==
  /\ last.op = "pop"
  /\ last.ret = "Ok"
  /\ last.val = <<<<"a">>>>
  /\ last.ptr \in NewMsgHandles
  /\ zmsgs[last.ptr].st = "live"
  /\ zmsg_size(zmsgs[last.ptr]) = 0

\* The frames of a message whose bytes are not valid text, by position from
\* the front.
BadAt(frames) == { i \in 1..Len(frames) : \E j \in 1..Len(frames[i].s) : frames[i].s[j] = "BAD" }

FirstBad(frames) == CHOOSE i \in BadAt(frames) : \A j \in BadAt(frames) : i <= j

\* C13: collect() on a Message of s frames reads the size before the first
\* pop only.  When every frame is valid text it makes s pops, returns s
\* frames and leaves the Message empty.  When the k-th frame from the front
\* is the first invalid one it makes k pops, returns the decoding error with
\* no frames, and leaves the s - k frames behind the k-th in the Message.
C13_CollectPopsSnapshotSize ==
  [][(last'.op = "collect" /\ last'.ret # "abort")
     => LET old == zmsgs[last'.ptr].frames
            new == zmsgs'[last'.ptr].frames
            s == Len(old)
            pops == Count(last'.calls, "zmsg_popstr")
        IN /\ \A i, j \in 1..Len(last'.calls) :
                (last'.calls[i] = "zmsg_popstr" /\ last'.calls[j] = "zmsg_size") => j < i
           /\ Count(last'.calls, "zmsg_size") >= 1
           /\ IF BadAt(old) = {}
              THEN /\ last'.ret = "Ok"
                   /\ pops = s
                   /\ Len(last'.val) = s
                   /\ new = <<>>
              ELSE /\ last'.ret = "FromCStr"
                   /\ pops = FirstBad(old)
                   /\ last'.val = <<>>
                   /\ Len(new) = s - FirstBad(old)
                   /\ new = SubSeq(old, FirstBad(old) + 1, s)]_vars

\* C13 witness: a collect failed at the first of two frames and left the
\* second one in the Message.
C13_Witness ==
  /\ last.op = "collect"
  /\ last.ret = "FromCStr"
  /\ last.calls = <<"zmsg_size", "zmsg_size", "zmsg_popstr">>
  /\ zmsg_size(zmsgs[last.ptr]) = 1

\* The positions of the frames of a list that fail validation.
InvalidAt(fs) == { i \in 1..Len(fs) : HasNul(fs[i]) }

FirstInvalid(fs) == CHOOSE i \in InvalidAt(fs) : \A j \in InvalidAt(fs) : i <= j

\* C14: from_frames(fs) makes a new Message and pushes the frames in list
\* order.  When all are valid it makes one push per frame, and the frame
\* that arrived n-th in the Message is fs[n].  When fs[k] is the first frame
\* that fails validation it makes the k - 1 pushes before it and no other,
\* takes nothing out again, and returns the text-encoding error; the Message
\* is released on the way out.
C14_FromFramesStopsAtFirstInvalid ==
  last.op = "from_frames" =>
    LET fs == last.arg
        z == zmsgs[last.rc]
    IN IF InvalidAt(fs) = {}
       THEN /\ last.ret = "Ok"
            /\ last.calls = <<"zmsg_new">> \o Repeat("zmsg_pushstr", Len(fs))
            /\ z.st = "live"
            /\ Len(z.frames) = Len(fs)
            /\ \A j \in 1..Len(z.frames) :
                 /\ z.frames[j].n \in 1..Len(fs)
                 /\ z.frames[j].s = fs[z.frames[j].n]
            /\ \A i, j \in 1..Len(z.frames) : i # j => z.frames[i].n # z.frames[j].n
       ELSE /\ last.ret = "ToCString"
            /\ last.calls = <<"zmsg_new">> \o Repeat("zmsg_pushstr", FirstInvalid(fs) - 1)
                              \o <<"zmsg_destroy">>
            /\ z.st = "freed"
            /\ z.rel = 1
            /\ msgs[last.obj].scope = "dropped"

\* C14 witness: from_frames failed at its second frame after one push.
C14_Witness ==
  /\ last.op = "from_frames"
  /\ last.arg = << <<"a">>, <<"a", "NUL", "a">> >>
  /\ last.ret = "ToCString"
  /\ Count(last.calls, "zmsg_pushstr") = 1

SendOps == {"whisper", "shout"}

\* C15 as claimed: in whisper and shout, an invalid peer or group text means
\* the native send is not called, the call returns the text-encoding error
\* and the wrapper releases the Message exactly once; a valid text means the
\* call returns success, the message is consumed by the engine and the
\* wrapper releases nothing.
C15_SendValidatesBeforeTransfer ==
  last.op \in SendOps =>
    IF InvalidText(last)
    THEN /\ last.ret = "ToCString"
         /\ last.calls = <<"zmsg_destroy">>
         /\ msgs[last.obj] = [scope |-> "dropped", sys |-> NULL]
         /\ last.ptr # NULL =>
              (zmsgs[last.ptr].st = "freed" /\ zmsgs[last.ptr].rel = 1 /\ zmsgs[last.ptr].sent = 0)
    ELSE /\ last.ret = "Ok"
         /\ NativeOf(last.op) \in Made(last.calls)
         /\ last.ptr # NULL =>
              (zmsgs[last.ptr].st = "freed" /\ zmsgs[last.ptr].rel = 1 /\ zmsgs[last.ptr].sent = 1)

\* C16: a destroy (or drop) of the Node leaves every Event value and every
\* native event as it was; a destroy (or drop) of an Event leaves the Zyre
\* value and the native node as they were; no handle of either kind is
\* released twice, and once the Node and an Event are both destroyed, in
\* either order, each of the two handles has been released exactly once.
C16_ReleasedOnce ==
  /\ znode.rel <= 1
  /\ \A h \in EventHandles : zevents[h].rel <= 1
  /\ \A e \in EventSlots :
       (/\ zyre.scope # "none" /\ zyre.sys = NULL
        /\ events[e].scope # "none" /\ events[e].sys = NULL)
       => (znode.rel = 1 /\ zevents[FreshEvent(e)].rel = 1)

C16_EventIndependentOfNode ==
  /\ C16_ReleasedOnce
  /\ [][/\ C16_ReleasedOnce'
        /\ last'.op \in {"destroy", "drop"} => (events' = events /\ zevents' = zevents)
        /\ last'.op \in {"event_destroy", "event_drop"} => (zyre' = zyre /\ znode' = znode)]_vars

\* C16 witness: an Event was destroyed after its Node, and still held its
\* handle until then.
C16_Witness ==
  /\ last.op = "event_destroy"
  /\ last.ptr # NULL
  /\ zyre.scope = "live"
  /\ zyre.sys = NULL
  /\ znode.rel = 1
  /\ zevents[last.ptr].rel = 1

\* The calls that leave the presence of their receiver's handle as it is.
NodeKeepOps == {"uuid", "name", "start", "stop", "join", "leave", "read_event"}

MsgKeepOps == {"size", "push", "pop", "collect"}

\* C17: the handle of a Zyre, Event or Message value goes from present to
\* absent only in a destroy or drop of that value or, for a Message, in the
\* whisper or shout it is passed to; an absent handle never becomes present
\* again; and uuid, name, start, stop, join, leave, read_event, the Event
\* field readers, size, push, pop and collect leave the receiver's handle as
\* it was.
C17_AbsenceIsAbsorbing ==
  [][/\ (zyre.sys # NULL /\ zyre'.sys = NULL) => last'.op \in {"destroy", "drop"}
     /\ (zyre.scope # "none" /\ zyre.sys = NULL) => zyre'.sys = NULL
     /\ last'.op \in NodeKeepOps => zyre'.sys = zyre.sys
     /\ \A e \in EventSlots :
          /\ (events[e].sys # NULL /\ events'[e].sys = NULL)
               => (last'.op \in {"event_destroy", "event_drop"} /\ last'.obj = e)
          /\ (events[e].scope # "none" /\ events[e].sys = NULL) => events'[e].sys = NULL
          /\ (last'.op \in EventFields /\ last'.obj = e) => events'[e].sys = events[e].sys
     /\ \A m \in MsgSlots :
          /\ (msgs[m].sys # NULL /\ msgs'[m].sys = NULL)
               => (last'.op \in {"msg_destroy", "msg_drop", "whisper", "shout"} /\ last'.obj = m)
          /\ (msgs[m].scope # "none" /\ msgs[m].sys = NULL) => msgs'[m].sys = NULL
          /\ (last'.op \in MsgKeepOps /\ last'.obj = m) => msgs'[m].sys = msgs[m].sys]_vars

\* C17 witness: with the Node's and an Event's handle absent, a Message
\* whose handle was already absent was destroyed again.
C17_Witness ==
  /\ last.op = "msg_destroy"
  /\ last.ptr = NULL
  /\ msgs[last.obj] = [scope |-> "live", sys |-> NULL]
  /\ zyre = [zyre EXCEPT !.scope = "live", !.sys = NULL]
  /\ \E e \in EventSlots : events[e] = [scope |-> "live", sys |-> NULL]

\* The native events a step allocates.
NewEvents == { h \in EventHandles : zevents[h].st # "live" /\ zevents'[h].st = "live" }

\* C18: every read_event makes exactly one zyre_event_new call; a result of
\* read_event appears only in the step in which the engine answers the
\* pending poll; that step takes at most one event from the engine and gives
\* an Event exactly when the poll produced one and ReadInterrupted when it was
\* interrupted; while the poll is pending no other step of the program
\* happens; and with an engine that eventually answers, every pending
\* read_event returns.
C18_ReadEventCompletesThroughEngine ==
  /\ [][/\ last'.op = "read_event" => last'.calls = <<"zyre_event_new">>
        /\ pc' = "polling" => (pc = "idle" /\ last'.op = "read_event" /\ last'.ret = "pending")
        /\ (last'.op = "read_event" /\ last'.ret \in {"Ok", "ReadInterrupted"})
             => (pc = "polling" /\ last.ret = "pending")
        /\ pc = "polling"
             => (/\ pc' = "idle"
                 /\ last'.op = "read_event"
                 /\ last'.ret \in {"Ok", "ReadInterrupted"}
                 /\ Cardinality(NewEvents) <= 1
                 /\ last'.ret = "Ok" <=> NewEvents = {last'.rc}
                 /\ last'.ret = "ReadInterrupted" <=> (NewEvents = {} /\ last'.rc = NULL)
                 /\ UNCHANGED <<zyre, znode, msgs, sendq>>)]_vars
  /\ (pc = "polling") ~> (pc = "idle" /\ last.op = "read_event"
                            /\ last.ret \in {"Ok", "ReadInterrupted"})

\* C18 witness: a read_event is pending inside zyre_event_new.
C18_Witness ==
  /\ pc = "polling"
  /\ last.op = "read_event"
  /\ last.ret = "pending"
  /\ last.calls = <<"zyre_event_new">>
  /\ znode.phase = "started"

====
